---- MODULE Spec2Model ----
(***************************************************************************)
(* Cart / checkout reconciliation of the storefront.                       *)
(*                                                                         *)
(* Server side: the create-payment-intent handler (the Intent Reconciler)  *)
(* and the Stripe webhook handler (the Webhook Consumer), both in          *)
(* src/pages/api/create-payment-intent.ts, running as concurrent request   *)
(* handlers over two shared stores: the payment processor's intents and    *)
(* the Order table of the Prisma schema (src/unnamed/part_003).            *)
(* Every `await` of a handler is a step boundary: other handlers may run   *)
(* between two steps of one request.                                       *)
(***************************************************************************)
EXTENDS Integers, Sequences, FiniteSets, TLC

\* ------------------------------------------------------------------ bounds
\* Payment intents the processor ever creates in one behaviour.
MaxIntents == 2
\* addProduct / removeProduct calls made on the cart store in one behaviour.
MaxCalls == 4
\* Reconcile requests the client sends in one behaviour.
MaxFetches == 3

\* --------------------------------------------------------------- encodings
\* `unit_amount: number | null` (AddCartType): null, encoded as a number so
\* that it can be compared with prices.
NULL == -1
\* parseFloat(null): not-a-number.
NaN == -2
\* The store's initial paymentIntent '' (falsy): no intent identifier.
NoIntent == 0
\* getServerSession found no session.
NoSession == "none"
Users == {"u1", "u2"}

\* Request handlers that may be running at once. A handler that has answered
\* takes the next request, so any number of requests is served one after
\* another by each.
RProcs == {"r1", "r2"}
WProcs == {"w1", "w2"}
IntentIds == 1..MaxIntents

\* --------------------------------------------------------- request inputs
Item(id, price, qty) ==
    [id |-> id, name |-> id, images |-> id, unit_amount |-> price, quantity |-> qty]

\* The cart snapshots a client submits: the spec's example cart (2200), a
\* one-item cart, and a cart holding an item whose price is null.
ExampleCart == << Item("p1", 500, 2), Item("p2", 1200, 1) >>

Carts ==
    { ExampleCart,
      << Item("p1", 500, 1) >>,
      << Item("p3", NULL, 1), Item("p1", 500, 1) >> }

\* The same and the empty cart.
CalcCarts == Carts \cup { << >> }

\* The carts of priced items only.
PricedCarts == {c \in Carts : \A i \in 1..Len(c) : c[i].unit_amount # NULL}

\* ---------------------------------------------------------- pure functions
\* Mutant: the quantity is left out of the product.
Times_NoQuantity(a, b) == IF a = NULL THEN 0 ELSE a

\* JS `null * n` is 0: `item.unit_amount! * item.quantity!`.
Times(a, b) == IF a = NULL THEN 0 ELSE a * b

RECURSIVE calcOrderAmount(_)
calcOrderAmount(items) ==
    IF items = << >> THEN 0
    ELSE calcOrderAmount(SubSeq(items, 1, Len(items) - 1))
         + Times(items[Len(items)].unit_amount, items[Len(items)].quantity)

\* parseFloat(item.unit_amount): a number is kept, null gives NaN.
parseFloat(x) == IF x = NULL THEN NaN ELSE x

\* items.map(item => ({name, description, unit_amount, image, quantity})).
\* AddCartType has `images`, not `image` or `description`: both come out
\* undefined (null in the row).
ProductRows(items) ==
    [i \in 1..Len(items) |->
        [name |-> items[i].name,
         description |-> "null",
         unit_amount |-> parseFloat(items[i].unit_amount),
         image |-> "undefined",
         quantity |-> items[i].quantity]]

\* ------------------------------------------------------------------- state
VARIABLES
    intents,    \* the processor's payment intents: id (index) -> [amount]
    orders,     \* the Order table: a set of rows
    orderSeq,   \* Order ids handed out so far (cuid())
    req,        \* reconciler request handlers: slot -> locals
    wh,         \* webhook request handlers: slot -> locals
    store,      \* the client's cart store (zustand state)
    calls,      \* the addProduct / removeProduct calls made on the store so far
    localStorage,   \* the browser's local storage: key -> stored text
    fetches,    \* the reconcile requests the client has sent, in order
    checkout    \* the Checkout component: mounted instance and its clientSecret

vars == << intents, orders, orderSeq, req, wh, store, calls, localStorage, fetches, checkout >>

\* The client's variables but the requests under way, and all of them.
browser == << store, calls, localStorage, checkout >>
client == << browser, fetches >>

NoOrder == 0
NoIntentObj == [id |-> NoIntent, amount |-> 0]
NoResp == [status |-> 0]
IdleReq ==
    [pc |-> "idle", user |-> NoSession, items |-> << >>, payment_intent_id |-> NoIntent,
     intent |-> NoIntentObj, existing_order |-> NoOrder, resp |-> NoResp]
NoEvent == [type |-> "none", payment_intent |-> NoIntent]
IdleWh ==
    [pc |-> "idle", sig |-> "missing", verified |-> FALSE, event |-> NoEvent,
     resp |-> NoResp]

\* The store's initial state: cart [], isOpen false, paymentIntent '',
\* onCheckout 'cart'.
InitStore ==
    [cart |-> << >>, isOpen |-> FALSE, paymentIntent |-> NoIntent, onCheckout |-> "cart"]

\* `const options = { name: 'cart-store' }`: the key the cart store is kept
\* under; the theme store has its own.
StoreName == "cart-store"
StorageKeys == {"cart-store", "theme-store"}

\* No Checkout component is mounted.
NoCheckout == [mounted |-> FALSE, inst |-> 0, clientSecret |-> NoIntent]

Init ==
    /\ intents = << >>
    /\ orders = {}
    /\ orderSeq = 0
    /\ req = [p \in RProcs |-> IdleReq]
    /\ wh = [w \in WProcs |-> IdleWh]
    /\ store = InitStore
    /\ calls = << >>
    /\ localStorage = [k \in StorageKeys |-> << >>]
    /\ fetches = << >>
    /\ checkout = NoCheckout

\* --------------------------------------------------------------- the stores
IntentExists(id) == id \in 1..Len(intents)

\* prisma.order.findFirst({where: {paymentIntentID}}): the matching rows.
OrdersOfIntent(os, id) == {o \in os : o.paymentIntentID = id}

\* Mutant: the update is given orderData, which says status 'pending'.
UpdatedOrderRow_OrderData(o, items) ==
    [o EXCEPT !.amount = calcOrderAmount(items), !.products = ProductRows(items),
              !.status = "pending"]

\* Mutant: the update replaces the products and forgets the amount.
UpdatedOrderRow_KeepAmount(o, items) == [o EXCEPT !.products = ProductRows(items)]

\* Mutant: the update has no `deleteMany: {}`: the new products are added
\* to the old ones.
UpdatedOrderRow_Append(o, items) ==
    [o EXCEPT !.amount = calcOrderAmount(items),
              !.products = o.products \o ProductRows(items)]

\* The row the reconciler's update leaves: amount and products replaced
\* (deleteMany + create), every other column kept.
UpdatedOrderRow(o, items) ==
    [o EXCEPT !.amount = calcOrderAmount(items), !.products = ProductRows(items)]

\* Mutant: the new version of the row is inserted as a row of its own (a
\* create where an update is meant), beside the old one.
OrderUpdate_Insert(os, o, items) ==
    os \cup {[UpdatedOrderRow(o, items) EXCEPT !.id = o.id + MaxIntents]}

\* Mutant: the row is replaced by a row made from orderData (a delete and a
\* create where a column-wise update is meant): the status is 'pending' again.
OrderUpdate_Replace(os, o, items) ==
    (os \ {o}) \cup {[UpdatedOrderRow(o, items) EXCEPT !.status = "pending"]}

\* Mutant: a completed Order is left as it is.
OrderUpdate_SkipComplete(os, o, items) ==
    IF o.status = "complete" THEN os ELSE (os \ {o}) \cup {UpdatedOrderRow(o, items)}

\* prisma.order.update({where: {id}, data: {amount, products}}).
OrderUpdate(os, o, items) == (os \ {o}) \cup {UpdatedOrderRow(o, items)}

\* Mutant: line 152 is missing, orderData keeps the request's (empty)
\* payment_intent_id.
NewOrderRow_StaleIntent(id, user, items, intentId) ==
    [id |-> id, userId |-> user, amount |-> calcOrderAmount(items), currency |-> "usd",
     status |-> "pending", paymentIntentID |-> NoIntent, products |-> ProductRows(items)]

\* orderData with the new intent's id: the row prisma.order.create inserts.
NewOrderRow(id, user, items, intentId) ==
    [id |-> id, userId |-> user, amount |-> calcOrderAmount(items), currency |-> "usd",
     status |-> "pending", paymentIntentID |-> intentId, products |-> ProductRows(items)]

\* Mutant: the status is toggled instead of set.
CompletedOrderRow_Toggle(o) ==
    [o EXCEPT !.status = IF o.status = "complete" THEN "pending" ELSE "complete"]

\* The row the webhook's update leaves: data: {status: 'complete'}.
CompletedOrderRow(o) == [o EXCEPT !.status = "complete"]

\* Mutant: the cart's total is added to the intent's amount.
IntentUpdate_Add(ins, id, items) ==
    [ins EXCEPT ![id] = [amount |-> ins[id].amount + calcOrderAmount(items)]]

\* Mutant: the intent is not updated.
IntentUpdate_Skip(ins, id, items) == ins

\* stripe.paymentIntents.update(id, {amount}).
IntentUpdate(ins, id, items) == [ins EXCEPT ![id] = [amount |-> calcOrderAmount(items)]]

\* stripe.paymentIntents.create({amount, currency, ...}): a fresh id.
IntentCreate(ins, items) == Append(ins, [amount |-> calcOrderAmount(items)])

\* The intent object a processor call returns.
IntentObj(ins, id) == [id |-> id, amount |-> ins[id].amount]

\* ------------------------------------------------- the Intent Reconciler
Answer(p, r) == req' = [req EXCEPT ![p].pc = "done", ![p].resp = r]

\* Mutant: the session check is missing.
Reconcile_NoSessionCheck(p, user, items, pid) ==
    /\ req[p].pc \in {"idle", "done"}
    /\ req' = [req EXCEPT ![p] =
                  [IdleReq EXCEPT !.pc = IF pid # NoIntent THEN "retrieve" ELSE "createIntent",
                                  !.user = user,
                                  !.items = items,
                                  !.payment_intent_id = pid]]
    /\ UNCHANGED << intents, orders, orderSeq, wh, browser >>

\* Lines 33-89: the session check, the body, orderData, and the branch on
\* payment_intent_id. Without a session: 403, and nothing else is read.
Reconcile(p, user, items, pid) ==
    /\ req[p].pc \in {"idle", "done"}
    /\ IF user = NoSession
       THEN req' = [req EXCEPT ![p] = [IdleReq EXCEPT !.pc = "done", !.resp = [status |-> 403]]]
       ELSE req' = [req EXCEPT ![p] =
                       [IdleReq EXCEPT !.pc = IF pid # NoIntent THEN "retrieve" ELSE "createIntent",
                                       !.user = user,
                                       !.items = items,
                                       !.payment_intent_id = pid]]
    /\ UNCHANGED << intents, orders, orderSeq, wh, browser >>

\* Lines 90-94: stripe.paymentIntents.retrieve. For an id the processor does
\* not know the call either rejects (the handler has no catch: the framework
\* answers 500) or yields no intent, and then `if (current_intent)` falls
\* through to the end of the handler, which sends nothing.
RetrieveIntent(p) ==
    /\ req[p].pc = "retrieve"
    /\ \/ /\ IntentExists(req[p].payment_intent_id)
          /\ req' = [req EXCEPT ![p].pc = "updateIntent"]
       \/ /\ ~IntentExists(req[p].payment_intent_id)
          /\ Answer(p, [status |-> 500])
       \/ /\ ~IntentExists(req[p].payment_intent_id)
          /\ Answer(p, NoResp)
    /\ UNCHANGED << intents, orders, orderSeq, wh, client >>

\* Lines 95-98: stripe.paymentIntents.update.
UpdateIntent(p) ==
    /\ req[p].pc = "updateIntent"
    /\ intents' = IntentUpdate(intents, req[p].payment_intent_id, req[p].items)
    /\ req' = [req EXCEPT ![p].pc = "findOrder",
                          ![p].intent = IntentObj(intents', req[p].payment_intent_id)]
    /\ UNCHANGED << orders, orderSeq, wh, client >>

\* Mutant: a missing Order is reported as a success.
OrderMissing_Silent(p) ==
    /\ Answer(p, [status |-> 200, paymentIntent |-> req[p].intent])
    /\ UNCHANGED << orders, orderSeq >>

\* Lines 106-113: `if (!existing_order)`: 404, and nothing is written.
OrderMissing(p) ==
    /\ Answer(p, [status |-> 404])
    /\ UNCHANGED << orders, orderSeq >>

\* Lines 100-113: prisma.order.findFirst by the updated intent's id; 404
\* when there is no such Order.
FindOrder(p) ==
    /\ req[p].pc = "findOrder"
    /\ \/ /\ OrdersOfIntent(orders, req[p].intent.id) = {}
          /\ OrderMissing(p)
       \/ \E o \in OrdersOfIntent(orders, req[p].intent.id) :
             /\ req' = [req EXCEPT ![p].pc = "updateOrder", ![p].existing_order = o.id]
             /\ UNCHANGED << orders, orderSeq >>
    /\ UNCHANGED << intents, wh, client >>

\* Lines 116-138: prisma.order.update where id = existing_order.id, then 200
\* with the updated intent and Order. update rejects when the row is gone
\* (deleted since findFirst): 500.
UpdateOrder(p) ==
    /\ req[p].pc = "updateOrder"
    /\ \/ \E o \in orders :
             /\ o.id = req[p].existing_order
             /\ orders' = OrderUpdate(orders, o, req[p].items)
             /\ Answer(p, [status |-> 200, paymentIntent |-> req[p].intent,
                           order |-> UpdatedOrderRow(o, req[p].items)])
       \/ /\ \A o \in orders : o.id # req[p].existing_order
          /\ orders' = orders
          /\ Answer(p, [status |-> 500])
    /\ UNCHANGED << intents, orderSeq, wh, client >>

\* Lines 146-150: stripe.paymentIntents.create.
CreateIntent(p) ==
    /\ req[p].pc = "createIntent"
    /\ Len(intents) < MaxIntents
    /\ intents' = IntentCreate(intents, req[p].items)
    /\ req' = [req EXCEPT ![p].pc = "createOrder",
                          ![p].intent = IntentObj(intents', Len(intents'))]
    /\ UNCHANGED << orders, orderSeq, wh, client >>

\* Lines 152-160: orderData.paymentIntentID = new intent id;
\* prisma.order.create; 200 with the intent and the Order. paymentIntentID is
\* @unique: create rejects a second row for the same intent (500).
CreateOrder(p) ==
    /\ req[p].pc = "createOrder"
    /\ \/ /\ OrdersOfIntent(orders, req[p].intent.id) = {}
          /\ orderSeq' = orderSeq + 1
          /\ orders' = orders \cup
                 {NewOrderRow(orderSeq', req[p].user, req[p].items, req[p].intent.id)}
          /\ Answer(p, [status |-> 200, paymentIntent |-> req[p].intent,
                        order |-> NewOrderRow(orderSeq', req[p].user, req[p].items,
                                              req[p].intent.id)])
       \/ /\ OrdersOfIntent(orders, req[p].intent.id) # {}
          /\ UNCHANGED << orders, orderSeq >>
          /\ Answer(p, [status |-> 500])
    /\ UNCHANGED << intents, wh, client >>

\* Lines 89-161: an awaited call to the processor or to the data store
\* rejects (unavailable, timed out). Nothing catches it: the request ends
\* with the framework's 500, and what the earlier calls wrote stays.
CallFails(p) ==
    /\ req[p].pc \in {"retrieve", "updateIntent", "findOrder", "updateOrder",
                      "createIntent", "createOrder"}
    /\ Answer(p, [status |-> 500])
    /\ UNCHANGED << intents, orders, orderSeq, wh, client >>

\* --------------------------------------------------- the Webhook Consumer
\* What a delivery carries: whether the stripe-signature header is present,
\* whether constructEvent verifies the payload against it and the secret, and
\* the event. A charge's payment_intent is an intent id (a string) or null.
SigHeaders == {"missing", "present"}
Events ==
    [type : {"charge.succeeded"}, payment_intent : IntentIds \cup {NoIntent}]
    \cup [type : {"payment_intent.created", "customer.created"}, payment_intent : {NoIntent}]

WhAnswer(w, r) == wh' = [wh EXCEPT ![w].pc = "done", ![w].resp = r]

\* Mutant: the error constructEvent throws is swallowed.
Accepted_HeaderOnly(sig, verified) == sig # "missing"

\* Lines 205-231: the delivery is accepted when the stripe-signature header
\* is there and constructEvent does not throw.
Accepted(sig, verified) == sig # "missing" /\ verified

\* `typeof charge.payment_intent === 'string'`.
IsString(pi) == pi # NoIntent

\* Whether the switch reaches prisma.order.update for this event.
ReachesUpdate(event) == event.type = "charge.succeeded" /\ IsString(event.payment_intent)

\* Lines 200-253 and 259-274: the signature check, constructEvent, and the
\* switch on event.type up to its first await. 400 without a signature or on
\* a failed verification; {received: true} for an event that updates nothing.
WebhookReceive(w, sig, verified, event) ==
    /\ wh[w].pc \in {"idle", "done"}
    /\ LET d == [IdleWh EXCEPT !.sig = sig, !.verified = verified]
       IN  IF ~Accepted(sig, verified)
           THEN wh' = [wh EXCEPT ![w] = [d EXCEPT !.pc = "done", !.resp = [status |-> 400]]]
           ELSE IF ReachesUpdate(event)
                THEN wh' = [wh EXCEPT ![w] = [d EXCEPT !.pc = "update", !.event = event]]
                ELSE wh' = [wh EXCEPT ![w] = [d EXCEPT !.pc = "done", !.event = event,
                                                !.resp = [status |-> 200, received |-> TRUE]]]
    /\ UNCHANGED << intents, orders, orderSeq, req, client >>

\* prisma.order.update({where: {paymentIntentID}, data: {status}}).
OrderComplete(os, o) == (os \ {o}) \cup {CompletedOrderRow(o)}

\* Lines 254-258 and 274: prisma.order.update where paymentIntentID is the
\* charge's intent, then {received: true}. update rejects when no row
\* matches, and the handler has no catch: the framework answers 500.
WebhookUpdateOrder(w) ==
    /\ wh[w].pc = "update"
    /\ \/ \E o \in OrdersOfIntent(orders, wh[w].event.payment_intent) :
             /\ orders' = OrderComplete(orders, o)
             /\ WhAnswer(w, [status |-> 200, received |-> TRUE])
       \/ /\ OrdersOfIntent(orders, wh[w].event.payment_intent) = {}
          /\ orders' = orders
          /\ WhAnswer(w, [status |-> 500])
    /\ UNCHANGED << intents, orderSeq, req, client >>

\* ------------------------------------------------------------ environment
\* An Order row is deleted out of band (by an operator, in the database).
DeleteOrder(o) ==
    /\ o \in orders
    /\ orders' = orders \ {o}
    /\ UNCHANGED << intents, orderSeq, req, wh, client >>

\* ------------------------------------------------------ the cart store
\* The server's variables, which no store action touches.
server == << intents, orders, orderSeq, req, wh >>

\* The items the components pass to addProduct and removeProduct: a product
\* page's item or a cart row's item, with whatever quantity it carries.
StoreItems == { Item("p1", 500, 1), Item("p1", 500, 3), Item("p2", 1200, 1) }

\* The values the components pass to setCheckout.
Phases == {"cart", "checkout", "success"}

\* state.cart.find(cartItem => cartItem.id === item.id): the first match.
itemExists(cart, item) == \E i \in 1..Len(cart) : cart[i].id = item.id

find(cart, item) ==
    cart[CHOOSE i \in 1..Len(cart) :
            /\ cart[i].id = item.id
            /\ \A j \in 1..(i - 1) : cart[j].id # item.id]

\* Mutant: a new item is put in the cart as it was passed, with the
\* quantity it carries.
AddedCart_KeepQuantity(cart, item) ==
    IF itemExists(cart, item)
    THEN [i \in 1..Len(cart) |->
             IF cart[i].id = item.id
             THEN [cart[i] EXCEPT !.quantity = cart[i].quantity + 1]
             ELSE cart[i]]
    ELSE cart \o << item >>

\* Mutant: the item is always put at the end, also when the cart has it.
AddedCart_AlwaysAppend(cart, item) == cart \o << [item EXCEPT !.quantity = 1] >>

\* Lines 86-104: the cart addProduct returns. map increments the quantity of
\* the matching items in place; otherwise {...item, quantity: 1} is put at
\* the end.
AddedCart(cart, item) ==
    IF itemExists(cart, item)
    THEN [i \in 1..Len(cart) |->
             IF cart[i].id = item.id
             THEN [cart[i] EXCEPT !.quantity = cart[i].quantity + 1]
             ELSE cart[i]]
    ELSE cart \o << [item EXCEPT !.quantity = 1] >>

\* cart.filter(cartItem => cartItem.id !== item.id).
Filtered(cart, item) == SelectSeq(cart, LAMBDA cartItem : cartItem.id # item.id)

\* Mutant: `>= 1` for `> 1`: the last unit is decremented, not dropped.
RemovedCart_AtLeastOne(cart, item) ==
    IF itemExists(cart, item) /\ find(cart, item).quantity >= 1
    THEN [i \in 1..Len(cart) |->
             IF cart[i].id = item.id
             THEN [cart[i] EXCEPT !.quantity = cart[i].quantity - 1]
             ELSE cart[i]]
    ELSE Filtered(cart, item)

\* Mutant: the item is dropped whatever its quantity.
RemovedCart_DropLine(cart, item) == Filtered(cart, item)

\* Lines 109-128: the cart removeProduct returns. map decrements when the
\* found item's quantity is above 1; otherwise filter drops the item (and
\* drops nothing when there is none).
RemovedCart(cart, item) ==
    IF itemExists(cart, item) /\ find(cart, item).quantity > 1
    THEN [i \in 1..Len(cart) |->
             IF cart[i].id = item.id
             THEN [cart[i] EXCEPT !.quantity = cart[i].quantity - 1]
             ELSE cart[i]]
    ELSE Filtered(cart, item)

\* JSON.stringify of a number: NaN becomes null.
JsonNumber(x) == IF x = NaN THEN NULL ELSE x

\* The text persist keeps: JSON.stringify({state, version}) of the state's
\* data (the actions, being functions, are left out).
Stringify(state) ==
    [state |->
        [cart |-> [i \in 1..Len(state.cart) |->
                      [state.cart[i] EXCEPT
                          !.unit_amount = JsonNumber(state.cart[i].unit_amount),
                          !.quantity = JsonNumber(state.cart[i].quantity)]],
         isOpen |-> state.isOpen,
         paymentIntent |-> state.paymentIntent,
         onCheckout |-> state.onCheckout],
     version |-> 0]

\* JSON.parse of the stored text, merged over the store's initial state
\* ({...currentState, ...persistedState}); the initial state when nothing is
\* stored under the key.
Rehydrate(initial, entry) ==
    IF entry = << >> THEN initial
    ELSE [initial EXCEPT !.cart = entry[1].state.cart,
                         !.isOpen = entry[1].state.isOpen,
                         !.paymentIntent = entry[1].state.paymentIntent,
                         !.onCheckout = entry[1].state.onCheckout]

\* Mutant: the store is created without persist.
set_NoPersist(state) ==
    /\ store' = state
    /\ UNCHANGED localStorage

\* `set` of create(persist(setupFunction, options)): the state is replaced
\* and written to local storage under the store's name.
set(state) ==
    /\ store' = state
    /\ localStorage' = [localStorage EXCEPT ![StoreName] = << Stringify(state) >>]

toggleCart ==
    /\ set([store EXCEPT !.isOpen = ~store.isOpen])
    /\ UNCHANGED << server, calls, fetches, checkout >>

addProduct(item) ==
    /\ Len(calls) < MaxCalls
    /\ set([store EXCEPT !.cart = AddedCart(store.cart, item)])
    /\ calls' = Append(calls, [op |-> "add", item |-> item])
    /\ UNCHANGED << server, fetches, checkout >>

removeProduct(item) ==
    /\ Len(calls) < MaxCalls
    /\ set([store EXCEPT !.cart = RemovedCart(store.cart, item)])
    /\ calls' = Append(calls, [op |-> "remove", item |-> item])
    /\ UNCHANGED << server, fetches, checkout >>

setPaymentIntent(value) ==
    /\ set([store EXCEPT !.paymentIntent = value])
    /\ UNCHANGED << server, calls, fetches, checkout >>

setCheckout(value) ==
    /\ set([store EXCEPT !.onCheckout = value])
    /\ UNCHANGED << server, calls, fetches, checkout >>

\* Mutant: clear puts the whole store back to its initial state.
clearCart_Reset ==
    /\ set([InitStore EXCEPT !.isOpen = store.isOpen])
    /\ UNCHANGED << server, calls, fetches, checkout >>

clearCart ==
    /\ set([store EXCEPT !.cart = << >>])
    /\ UNCHANGED << server, calls, fetches, checkout >>

\* The page is loaded again: the store is created anew and rehydrated from
\* local storage; the components and the handlers of the requests under way
\* are gone.
Reload ==
    /\ store' = Rehydrate(InitStore, localStorage[StoreName])
    /\ checkout' = [NoCheckout EXCEPT !.inst = checkout.inst]
    /\ fetches' = [f \in DOMAIN fetches |-> [fetches[f] EXCEPT !.listening = FALSE]]
    /\ UNCHANGED << server, calls, localStorage >>

\* ------------------------------------------------- the checkout client
\* Navbar renders <Cart /> when isOpen, and Cart renders <Checkout /> when
\* onCheckout is 'checkout'.
Visible == store.isOpen /\ store.onCheckout = "checkout"

\* React has rendered the store's state: Checkout is mounted exactly when it
\* is to be shown. The user acts on what is rendered.
UiReady == checkout.mounted = Visible

\* Checkout.tsx lines 83-103: Checkout mounts with no clientSecret, and its
\* effect posts the cart and the stored intent id as they are at that moment.
CheckoutMount ==
    /\ Visible
    /\ ~checkout.mounted
    /\ Len(fetches) < MaxFetches
    /\ checkout' = [mounted |-> TRUE, inst |-> checkout.inst + 1, clientSecret |-> NoIntent]
    /\ fetches' = Append(fetches,
                         [items |-> store.cart,
                          payment_intent_id |-> store.paymentIntent,
                          inst |-> checkout.inst + 1,
                          state |-> "sent",
                          proc |-> "none",
                          listening |-> TRUE])
    /\ UNCHANGED << server, store, calls, localStorage >>

\* Checkout unmounts when the panel is closed or the phase left: its
\* clientSecret is gone with it. The request it sent goes on.
CheckoutUnmount ==
    /\ ~Visible
    /\ checkout.mounted
    /\ checkout' = [checkout EXCEPT !.mounted = FALSE, !.clientSecret = NoIntent]
    /\ UNCHANGED << server, store, calls, localStorage, fetches >>

\* The slot p is not serving a request whose response the client has yet to
\* take.
Free(p) == \A g \in 1..Len(fetches) : fetches[g].state = "served" => fetches[g].proc # p

\* The request f reaches the server and a handler invocation p takes it, with
\* the session the cookie gives at that moment.
Deliver(f, p, user) ==
    /\ fetches[f].state = "sent"
    /\ Free(p)
    /\ Reconcile(p, user, fetches[f].items, fetches[f].payment_intent_id)
    /\ fetches' = [fetches EXCEPT ![f].state = "served", ![f].proc = p]

\* Mutant: the response handler puts back the state it captured when the
\* request was sent, with the new intent id.
StoreAfterResponse_Snapshot(state, fetch, resp) ==
    IF resp.status = 200
    THEN [state EXCEPT !.paymentIntent = resp.paymentIntent.id, !.cart = fetch.items]
    ELSE state

\* Checkout.tsx lines 104-125, the store after the response handlers: on 200
\* setPaymentIntent(data.paymentIntent.id). On 403 data is undefined, and on
\* 404 and 500 data.paymentIntent is: reading it throws before anything is
\* set.
StoreAfterResponse(state, fetch, resp) ==
    IF resp.status = 200
    THEN [state EXCEPT !.paymentIntent = resp.paymentIntent.id]
    ELSE state

\* Checkout.tsx lines 104-125: the response of request f arrives. On 200 the
\* instance that sent it, if still mounted, gets the clientSecret, and the
\* store the intent id. On 403 router.push leaves the page. A request whose
\* page is gone has no handler.
HandleResponse(f) ==
    /\ fetches[f].state = "served"
    /\ req[fetches[f].proc].pc = "done"
    /\ req[fetches[f].proc].resp # NoResp
    /\ LET resp == req[fetches[f].proc].resp
       IN  IF ~fetches[f].listening
           THEN /\ fetches' = [fetches EXCEPT ![f].state = "handled"]
                /\ UNCHANGED << store, localStorage, checkout >>
           ELSE IF resp.status = 200
           THEN /\ set(StoreAfterResponse(store, fetches[f], resp))
                /\ checkout' = IF checkout.mounted /\ checkout.inst = fetches[f].inst
                               THEN [checkout EXCEPT !.clientSecret = resp.paymentIntent.id]
                               ELSE checkout
                /\ fetches' = [fetches EXCEPT ![f].state = "handled"]
           ELSE IF resp.status = 403
           THEN /\ store' = StoreAfterResponse(store, fetches[f], resp)
                /\ checkout' = [NoCheckout EXCEPT !.inst = checkout.inst]
                /\ fetches' = [g \in DOMAIN fetches |->
                                 [fetches[g] EXCEPT !.listening = FALSE,
                                                    !.state = IF g = f THEN "handled" ELSE @]]
                /\ UNCHANGED localStorage
           ELSE /\ store' = StoreAfterResponse(store, fetches[f], resp)
                /\ fetches' = [fetches EXCEPT ![f].state = "handled"]
                /\ UNCHANGED << localStorage, checkout >>
    /\ UNCHANGED << server, calls >>

\* Navbar and Cart: the cart icon, the backdrop and the close button.
ClickToggle == UiReady /\ toggleCart

\* The product page's "Add to cart", reachable while the panel is closed.
ClickAddToCart(item) == UiReady /\ ~store.isOpen /\ addProduct(item)

\* Cart.tsx lines 60-91: the + and - of a cart row, shown in the cart phase.
ClickRowAdd(i) ==
    /\ UiReady /\ store.isOpen /\ store.onCheckout = "cart"
    /\ i \in 1..Len(store.cart)
    /\ addProduct(store.cart[i])

ClickRowRemove(i) ==
    /\ UiReady /\ store.isOpen /\ store.onCheckout = "cart"
    /\ i \in 1..Len(store.cart)
    /\ removeProduct(store.cart[i])

\* Cart.tsx lines 94-107: the Checkout button, shown while the cart has items.
ClickCheckout ==
    /\ UiReady /\ store.isOpen /\ Len(store.cart) > 0
    /\ setCheckout("checkout")

\* CheckoutForm.tsx lines 34-49: the form, rendered once there is a
\* clientSecret, is submitted and the payment confirmed.
ClickPay ==
    /\ UiReady /\ checkout.mounted /\ checkout.clientSecret # NoIntent
    /\ setCheckout("success")

\* ------------------------------------------------------------ specification
\* The steps of the reconciler handlers R, serving the users U with the cart
\* snapshots C.
StepReconciler(R, U, C) ==
    \/ \E p \in R, user \in U, items \in C, pid \in IntentIds \cup {NoIntent} :
          Reconcile(p, user, items, pid) /\ UNCHANGED fetches
    \/ \E p \in R : RetrieveIntent(p)
    \/ \E p \in R : UpdateIntent(p)
    \/ \E p \in R : FindOrder(p)
    \/ \E p \in R : UpdateOrder(p)
    \/ \E p \in R : CreateIntent(p)
    \/ \E p \in R : CreateOrder(p)

\* The steps of the webhook handlers W.
StepWebhook(W) ==
    \/ \E w \in W, sig \in SigHeaders, verified \in BOOLEAN, event \in Events :
          WebhookReceive(w, sig, verified, event)
    \/ \E w \in W : WebhookUpdateOrder(w)

StepEnvironment == \E o \in orders : DeleteOrder(o)

\* One reconciler and one webhook handler, interleaved, every input.
Next ==
    \/ StepReconciler({"r1"}, Users \cup {NoSession}, Carts)
    \/ StepWebhook({"w1"})
    \/ StepEnvironment

Spec == Init /\ [][Next]_vars

\* Two reconcilers serving one user, interleaved.
NextPair == StepReconciler(RProcs, {"u1"}, PricedCarts)

SpecPair == Init /\ [][NextPair]_vars

\* Two reconcilers and one webhook handler, interleaved, for one user and one
\* cart snapshot.
NextConcurrent ==
    \/ StepReconciler(RProcs, {"u1"}, {ExampleCart})
    \/ StepWebhook({"w1"})
    \/ StepEnvironment

SpecConcurrent == Init /\ [][NextConcurrent]_vars

\* One reconciler and two webhook handlers (a delivery and its redelivery),
\* interleaved, for one user.
NextRedelivery ==
    \/ StepReconciler({"r1"}, {"u1"}, PricedCarts)
    \/ StepWebhook(WProcs)
    \/ StepEnvironment

SpecRedelivery == Init /\ [][NextRedelivery]_vars

\* One reconciler serving one user, with every cart and the empty one.
NextCalc ==
    \/ StepReconciler({"r1"}, {"u1"}, CalcCarts)
    \/ StepEnvironment

SpecCalc == Init /\ [][NextCalc]_vars

\* One reconciler serving one user, whose calls to the processor and to the
\* data store may fail.
NextFaults ==
    \/ StepReconciler({"r1"}, {"u1"}, PricedCarts)
    \/ CallFails("r1")

SpecFaults == Init /\ [][NextFaults]_vars

\* The cart store alone, every action.
NextStore ==
    \/ toggleCart
    \/ \E item \in StoreItems : addProduct(item)
    \/ \E item \in StoreItems : removeProduct(item)
    \/ \E value \in IntentIds \cup {NoIntent} : setPaymentIntent(value)
    \/ \E value \in Phases : setCheckout(value)
    \/ clearCart

SpecStore == Init /\ [][NextStore]_vars

\* The cart store and reloads of the page.
NextPersist ==
    \/ NextStore
    \/ Reload

SpecPersist == Init /\ [][NextPersist]_vars

\* The cart store under addProduct and removeProduct calls only.
NextAddRemove ==
    \/ \E item \in StoreItems : addProduct(item)
    \/ \E item \in StoreItems : removeProduct(item)

SpecAddRemove == Init /\ [][NextAddRemove]_vars

\* The steps of the client: the user's clicks on the items I, the Checkout
\* component, and the requests, served by the handlers R with the sessions U.
StepClient(I, R, U) ==
    \/ ClickToggle
    \/ \E item \in I : ClickAddToCart(item)
    \/ \E i \in 1..MaxCalls : ClickRowAdd(i)
    \/ \E i \in 1..MaxCalls : ClickRowRemove(i)
    \/ ClickCheckout
    \/ ClickPay
    \/ CheckoutMount
    \/ CheckoutUnmount
    \/ \E f \in 1..Len(fetches), p \in R, user \in U : Deliver(f, p, user)
    \/ \E f \in 1..Len(fetches) : HandleResponse(f)

\* The steps the handlers R take once they have a request.
StepServe(R) ==
    \/ \E p \in R : RetrieveIntent(p)
    \/ \E p \in R : UpdateIntent(p)
    \/ \E p \in R : FindOrder(p)
    \/ \E p \in R : UpdateOrder(p)
    \/ \E p \in R : CreateIntent(p)
    \/ \E p \in R : CreateOrder(p)

\* The product the client of these specifications shops for.
CheckoutItems == { Item("p2", 1200, 1) }

\* One signed-in client checking out against two handler invocations, which
\* serve its requests concurrently.
NextCheckout ==
    \/ StepClient(CheckoutItems, RProcs, {"u1"})
    \/ StepServe(RProcs)

SpecCheckout == Init /\ [][NextCheckout]_vars

\* One client, signed in or not, whose requests are served one at a time,
\* while Orders may be deleted out of band.
NextCheckoutErrors ==
    \/ StepClient(CheckoutItems, {"r1"}, {"u1", NoSession})
    \/ StepServe({"r1"})
    \/ StepEnvironment

SpecCheckoutErrors == Init /\ [][NextCheckoutErrors]_vars

\* ------------------------------------------------------------------ claims
\* What the claims speak of, stated apart from the code's own helpers.

\* Every item of the cart has a price (a chargeable cart, spec 4.2).
Priced(items) == \A i \in 1..Len(items) : items[i].unit_amount # NULL

\* The sum of unitAmount * quantity over the items of a chargeable cart.
RECURSIVE Total(_)
Total(items) ==
    IF items = << >> THEN 0
    ELSE items[1].unit_amount * items[1].quantity + Total(Tail(items))

\* The line items of a cart snapshot or of an Order: name, price, quantity.
Lines(seq) ==
    [i \in 1..Len(seq) |->
        [name |-> seq[i].name, unit_amount |-> seq[i].unit_amount,
         quantity |-> seq[i].quantity]]

\* The handler p takes a step from `from` to `to`.
Moves(p, from, to) == req[p].pc = from /\ req'[p].pc = to /\ req'[p] # req[p]

\* The acknowledgment of the webhook handler.
Ack == [status |-> 200, received |-> TRUE]

\* C1: every Order is created pending; its status changes only in the webhook
\* handler's update for a verified charge.succeeded event carrying its intent,
\* and only from pending to complete.
C1_StatusOnlyByWebhook ==
    [][ /\ \A n \in orders' : (\A o \in orders : o.id # n.id) => n.status = "pending"
        /\ \A o \in orders, n \in orders' :
              (o.id = n.id /\ o.status # n.status) =>
                 /\ o.status = "pending"
                 /\ n.status = "complete"
                 /\ \E w \in WProcs :
                       /\ wh[w].pc = "update" /\ wh'[w].pc = "done"
                       /\ wh[w].sig = "present" /\ wh[w].verified
                       /\ wh[w].event.type = "charge.succeeded"
                       /\ wh[w].event.payment_intent = o.paymentIntentID ]_vars

\* C1 witness: the reconciler has updated an Order that is complete, and it
\* is still complete.
C1_Witness ==
    \E o \in orders :
        /\ o.status = "complete"
        /\ req["r1"].pc = "done"
        /\ req["r1"].payment_intent_id = o.paymentIntentID
        /\ req["r1"].resp.status = 200
        /\ req["r1"].resp.order = o

\* C2: a verified charge.succeeded event whose intent matches no Order is
\* acknowledged, and no Order changes (the claim as stated; the handler's
\* update rejects instead).
C2_UnknownIntentAcknowledged ==
    [][ \A w \in WProcs :
           ( /\ wh[w].pc = "update" /\ wh'[w].pc = "done"
             /\ OrdersOfIntent(orders, wh[w].event.payment_intent) = {} )
           => (wh'[w].resp = Ack /\ orders' = orders) ]_vars

\* C3: a create-path request for a chargeable cart creates one intent whose
\* amount is the cart's total, then one pending Order of the caller that
\* references that intent and carries the cart's line items and total, and
\* answers 200 with that intent and that Order.
C3_CreatePath ==
    [][ \A p \in RProcs :
           Priced(req[p].items) =>
              /\ Moves(p, "createIntent", "createOrder") =>
                    /\ Len(intents') = Len(intents) + 1
                    /\ SubSeq(intents', 1, Len(intents)) = intents
                    /\ intents'[Len(intents')].amount = Total(req[p].items)
                    /\ req'[p].intent.id = Len(intents')
                    /\ orders' = orders
              /\ (req[p].pc = "createOrder" /\ req'[p] # req[p]) =>
                    /\ req'[p].pc = "done"
                    /\ req'[p].resp.status = 200
                    /\ req'[p].resp.paymentIntent.id = req[p].intent.id
                    /\ req'[p].resp.paymentIntent.amount = Total(req[p].items)
                    /\ intents' = intents
                    /\ \E n \in orders' :
                          /\ n \notin orders
                          /\ \A o \in orders : o.id # n.id
                          /\ orders' = orders \cup {n}
                          /\ req'[p].resp.order = n
                          /\ n.status = "pending"
                          /\ n.paymentIntentID = req[p].intent.id
                          /\ n.userId = req[p].user
                          /\ n.amount = Total(req[p].items)
                          /\ Lines(n.products) = Lines(req[p].items) ]_vars

\* C3 witness: a create-path request for the example cart has answered 200
\* and its Order is in the table.
C3_Witness ==
    /\ req["r1"].pc = "done"
    /\ req["r1"].user \in Users
    /\ req["r1"].payment_intent_id = NoIntent
    /\ req["r1"].items = ExampleCart
    /\ req["r1"].resp.status = 200
    /\ req["r1"].resp.order \in orders
    /\ req["r1"].resp.order.amount = 2200

\* C4: an update-path request for a chargeable cart sets the intent's amount
\* to the cart's total, and its Order update replaces the line items by the
\* cart's and the amount by the total, leaving the Order's id, owner, status,
\* currency and intent reference, every other Order and the intents as they
\* were.
C4_UpdatePath ==
    [][ \A p \in RProcs :
           Priced(req[p].items) =>
              /\ Moves(p, "updateIntent", "findOrder") =>
                    /\ intents' = [intents EXCEPT ![req[p].payment_intent_id].amount =
                                                      Total(req[p].items)]
                    /\ orders' = orders
              /\ (Moves(p, "updateOrder", "done") /\ req'[p].resp.status = 200) =>
                    /\ intents' = intents
                    /\ \E o \in orders, n \in orders' :
                          /\ o.id = req[p].existing_order
                          /\ n.id = o.id
                          /\ orders' \ {n} = orders \ {o}
                          /\ req'[p].resp.order = n
                          /\ Lines(n.products) = Lines(req[p].items)
                          /\ n.amount = Total(req[p].items)
                          /\ n.userId = o.userId
                          /\ n.status = o.status
                          /\ n.currency = o.currency
                          /\ n.paymentIntentID = o.paymentIntentID ]_vars

\* C4 witness: an update-path request with the one-item cart has answered
\* 200; the intent and the Order both hold that cart's total.
C4_Witness ==
    /\ req["r1"].pc = "done"
    /\ req["r1"].payment_intent_id # NoIntent
    /\ Len(req["r1"].items) = 1
    /\ req["r1"].resp.status = 200
    /\ req["r1"].resp.order \in orders
    /\ req["r1"].resp.order.amount = 500
    /\ intents[req["r1"].payment_intent_id].amount = 500

\* C5: when the lookup of an update-path request finds no Order for the
\* intent, the request ends with 404 and writes nothing; and no step of an
\* update-path request adds an Order.
C5_OrderNotFound ==
    [][ \A p \in RProcs :
           /\ ( /\ req[p].pc = "findOrder" /\ req'[p] # req[p]
                /\ OrdersOfIntent(orders, req[p].payment_intent_id) = {} )
              => /\ req'[p].pc = "done"
                 /\ req'[p].resp.status = 404
                 /\ orders' = orders
                 /\ orderSeq' = orderSeq
           /\ ( /\ req[p].payment_intent_id # NoIntent
                /\ req[p].pc \notin {"idle", "done"}
                /\ req'[p] # req[p] )
              => \A n \in orders' : \E o \in orders : o.id = n.id ]_vars

\* C5 witness: a request for an existing intent whose Order is gone has been
\* answered 404, and there is still no Order for the intent.
C5_Witness ==
    /\ req["r1"].pc = "done"
    /\ IntentExists(req["r1"].payment_intent_id)
    /\ req["r1"].resp.status = 404
    /\ OrdersOfIntent(orders, req["r1"].payment_intent_id) = {}
    /\ orderSeq > 0

\* C6: a request whose intent identifier the processor does not know ends
\* with the 404 error outcome and writes nothing (the claim as stated; the
\* handler answers 500 or nothing).
C6_IntentNotFound ==
    [][ \A p \in RProcs :
           ( /\ req[p].pc = "retrieve" /\ req'[p] # req[p]
             /\ ~IntentExists(req[p].payment_intent_id) )
           => /\ req'[p].pc = "done"
              /\ req'[p].resp.status = 404
              /\ intents' = intents
              /\ orders' = orders ]_vars

\* C7: at most one Order references any payment-intent id.
C7_OneOrderPerIntent ==
    \A o1 \in orders, o2 \in orders :
        (o1.paymentIntentID # NoIntent /\ o1.paymentIntentID = o2.paymentIntentID)
        => o1 = o2

\* C7 witness: two Orders for two intents, one of them completed by the
\* webhook, after both reconcilers have answered an update-path request for
\* the same intent.
C7_Witness ==
    /\ Cardinality(orders) = 2
    /\ \E o \in orders : o.status = "complete"
    /\ \A p \in RProcs :
          /\ req[p].pc = "done"
          /\ req[p].resp.status = 200
          /\ req[p].payment_intent_id = 1

\* C8: when a reconciler q has answered an update-path request and the
\* Order still holds what q wrote, the Order update of a second request with
\* the same cart snapshot and the same intent id leaves the Order's amount
\* and line items as q left them: no line item is duplicated and the number
\* of Orders does not grow. The second request's intent amount is q's.
C8_Idempotent ==
    [][ \A p \in RProcs, q \in RProcs :
           ( /\ p # q
             /\ req[q].pc = "done" /\ req[q].resp.status = 200
             /\ req[q].payment_intent_id # NoIntent
             /\ req[p].payment_intent_id = req[q].payment_intent_id
             /\ req[p].items = req[q].items
             /\ Moves(p, "updateOrder", "done") /\ req'[p].resp.status = 200
             /\ \E o \in orders :
                   /\ o.id = req[p].existing_order
                   /\ o.amount = req[q].resp.order.amount
                   /\ o.products = req[q].resp.order.products )
           => /\ Cardinality(orders') = Cardinality(orders)
              /\ req'[p].resp.order.id = req[q].resp.order.id
              /\ req'[p].resp.order.amount = req[q].resp.order.amount
              /\ req'[p].resp.order.products = req[q].resp.order.products
              /\ Len(req'[p].resp.order.products) = Len(req[p].items)
              /\ req'[p].resp.paymentIntent.amount = req[q].resp.paymentIntent.amount
              /\ orders' = orders ]_vars

\* C8 witness: two update-path requests with the same cart and intent have
\* both answered 200 with the same Order content, which the table holds, and
\* it is the only Order.
C8_Witness ==
    /\ \A p \in RProcs :
          /\ req[p].pc = "done"
          /\ req[p].resp.status = 200
          /\ req[p].payment_intent_id = 1
          /\ Len(req[p].items) = 1
    /\ req["r1"].resp.order = req["r2"].resp.order
    /\ orders = {req["r1"].resp.order}
    /\ Len(req["r1"].resp.order.products) = 1

\* C9: a delivery of a verified charge.succeeded event whose intent has an
\* Order is acknowledged and leaves that Order complete and otherwise as it
\* was; when the same event has been delivered and acknowledged before, the
\* delivery changes no Order at all.
C9_RedeliveryIdempotent ==
    [][ \A w \in WProcs :
           (wh[w].pc = "update" /\ wh'[w].pc = "done") =>
              \A o \in OrdersOfIntent(orders, wh[w].event.payment_intent) :
                 /\ wh'[w].resp = Ack
                 /\ orders' = (orders \ {o}) \cup {[o EXCEPT !.status = "complete"]}
                 /\ intents' = intents
                 /\ (\E v \in WProcs \ {w} :
                        /\ wh[v].pc = "done" /\ wh[v].resp = Ack
                        /\ wh[v].event = wh[w].event)
                    => (o.status = "complete" /\ orders' = orders) ]_vars

\* C9 witness: the same charge.succeeded event has been delivered twice, both
\* deliveries are acknowledged, and the intent's Order is complete.
C9_Witness ==
    /\ \A w \in WProcs :
          /\ wh[w].pc = "done"
          /\ wh[w].resp = Ack
          /\ wh[w].event = [type |-> "charge.succeeded", payment_intent |-> 1]
    /\ \E o \in orders : o.paymentIntentID = 1 /\ o.status = "complete"

\* C10: a delivery without the signature header, or whose payload fails
\* verification, is answered 400 at once and changes no Order.
C10_InvalidSignatureRejected ==
    [][ \A w \in WProcs :
           (wh'[w] # wh[w] /\ (wh'[w].sig = "missing" \/ ~wh'[w].verified))
           => /\ wh'[w].pc = "done"
              /\ wh'[w].resp.status >= 400
              /\ wh'[w].resp.status < 500
              /\ orders' = orders ]_vars

\* C10 witness: a delivery with a signature header whose payload failed
\* verification has been answered 400 while a pending Order exists.
C10_Witness ==
    /\ wh["w1"].pc = "done"
    /\ wh["w1"].sig = "present"
    /\ ~wh["w1"].verified
    /\ wh["w1"].resp.status = 400
    /\ \E o \in orders : o.status = "pending"

\* C11: every accepted (verified) delivery is answered {received: true},
\* whatever the event's type; a delivery of an event of an unrecognized type
\* changes no Order; and a response that is not 2xx is given only to a
\* delivery whose signature is missing or fails verification (the claim as
\* stated; the handler's update rejects for an intent without an Order).
C11_VerifiedAcknowledged ==
    [][ \A w \in WProcs :
           (wh'[w] # wh[w] /\ wh'[w].pc = "done") =>
              /\ (wh'[w].sig = "present" /\ wh'[w].verified) => wh'[w].resp = Ack
              /\ (wh'[w].resp.status < 200 \/ wh'[w].resp.status > 299)
                 => (wh'[w].sig = "missing" \/ ~wh'[w].verified)
              /\ wh'[w].event.type \notin {"none", "charge.succeeded"}
                 => orders' = orders ]_vars

\* C12: when an update-path request for a chargeable cart has answered 200
\* and a charge.succeeded delivery for the same intent has been acknowledged,
\* in whatever order their steps were taken, the intent's Order is complete
\* and holds the request's amount and line items.
C12_NoLostUpdate ==
    \A p \in RProcs, w \in WProcs :
        ( /\ req[p].pc = "done"
          /\ req[p].payment_intent_id # NoIntent
          /\ req[p].resp.status = 200
          /\ Priced(req[p].items)
          /\ wh[w].pc = "done"
          /\ wh[w].resp = Ack
          /\ wh[w].event.type = "charge.succeeded"
          /\ wh[w].event.payment_intent = req[p].payment_intent_id )
        => \A o \in OrdersOfIntent(orders, req[p].payment_intent_id) :
              /\ o.status = "complete"
              /\ o.amount = Total(req[p].items)
              /\ Lines(o.products) = Lines(req[p].items)

\* C12 witness: an update-path request with the one-item cart has answered
\* 200, the delivery for its intent is acknowledged, and the Order, first
\* created for the example cart, is complete with the one-item cart's total.
C12_Witness ==
    /\ req["r1"].pc = "done"
    /\ req["r1"].payment_intent_id = 1
    /\ req["r1"].resp.status = 200
    /\ Len(req["r1"].items) = 1
    /\ wh["w1"].pc = "done"
    /\ wh["w1"].resp = Ack
    /\ wh["w1"].event = [type |-> "charge.succeeded", payment_intent |-> 1]
    /\ \E o \in orders :
          /\ o.paymentIntentID = 1
          /\ o.status = "complete"
          /\ o.amount = 500
          /\ intents[1].amount = 500

\* C13: a request without a session is answered Unauthorized (403) in its
\* first step and takes no further step; no intent and no Order is created
\* or changed by it.
C13_Unauthorized ==
    [][ \A p \in RProcs :
           /\ (req'[p] # req[p] /\ req'[p].user = NoSession)
              => /\ req'[p].pc = "done"
                 /\ req'[p].resp.status = 403
                 /\ intents' = intents
                 /\ orders' = orders
           /\ (req[p].user = NoSession /\ req'[p] # req[p])
              => req[p].pc \in {"idle", "done"} ]_vars

\* C13 witness: a request without a session has been answered 403 while an
\* intent and its Order exist.
C13_Witness ==
    /\ req["r1"].pc = "done"
    /\ req["r1"].user = NoSession
    /\ req["r1"].resp.status = 403
    /\ Len(intents) > 0
    /\ orders # {}

\* C14: the Order update of a request changes only Orders owned by the
\* request's user (the claim as stated; the handler looks the Order up by
\* the intent id alone).
C14_OwnerOnly ==
    [][ \A p \in RProcs :
           Moves(p, "updateOrder", "done") =>
              \A o \in orders : o \notin orders' => o.userId = req[p].user ]_vars

\* ---- the cart store's claims
\* The product ids of the items passed to the store.
ProductIds == {item.id : item \in StoreItems}

\* Whether the cart holds a line item of the product.
HasLine(cart, id) == \E i \in 1..Len(cart) : cart[i].id = id

\* The quantity the cart holds of a product: 0 without a line item.
Qty(cart, id) ==
    IF HasLine(cart, id)
    THEN cart[CHOOSE i \in 1..Len(cart) : cart[i].id = id].quantity
    ELSE 0

\* The step is a call `op` of the store for the product `id`.
Calls(op, id) ==
    /\ Len(calls') = Len(calls) + 1
    /\ calls'[Len(calls')].op = op
    /\ calls'[Len(calls')].item.id = id

\* C15: add on a cart holding the product raises that line item's quantity
\* by one and leaves the other line items and the order as they were; on a
\* cart without it, add puts a line item of quantity 1 at the end, whatever
\* quantity the argument carries, and leaves the others as they were.
C15_Add ==
    [][ \A id \in ProductIds :
           Calls("add", id) =>
              LET old == store.cart
                  new == store'.cart
              IN  IF HasLine(old, id)
                  THEN /\ Len(new) = Len(old)
                       /\ \A i \in 1..Len(old) :
                             /\ old[i].id = id =>
                                   new[i] = [old[i] EXCEPT !.quantity = old[i].quantity + 1]
                             /\ old[i].id # id => new[i] = old[i]
                  ELSE /\ Len(new) = Len(old) + 1
                       /\ SubSeq(new, 1, Len(old)) = old
                       /\ new[Len(new)].id = id
                       /\ new[Len(new)].quantity = 1 ]_vars

\* C15 witness: p2 was added, then p1 with an argument of quantity 3, then
\* p2 again: p2 is first with quantity 2, p1 second with quantity 1.
C15_Witness ==
    /\ Len(calls) = 3
    /\ calls[2] = [op |-> "add", item |-> Item("p1", 500, 3)]
    /\ Len(store.cart) = 2
    /\ store.cart[1].id = "p2" /\ store.cart[1].quantity = 2
    /\ store.cart[2].id = "p1" /\ store.cart[2].quantity = 1

\* C16: remove lowers the matching line item's quantity by one when it is
\* above 1, deletes the line item when it is 1, and leaves the cart as it is
\* when no line item matches; the other line items keep their content and
\* order.
C16_Remove ==
    [][ \A id \in ProductIds :
           Calls("remove", id) =>
              LET old == store.cart
                  new == store'.cart
              IN  IF ~HasLine(old, id)
                  THEN new = old
                  ELSE \E i \in 1..Len(old) :
                          /\ old[i].id = id
                          /\ IF old[i].quantity > 1
                             THEN new = [old EXCEPT ![i].quantity = old[i].quantity - 1]
                             ELSE /\ old[i].quantity = 1
                                  /\ new = SubSeq(old, 1, i - 1)
                                           \o SubSeq(old, i + 1, Len(old)) ]_vars

\* C16 witness: after add p1, add p2, add p2, the remove of p1 has deleted
\* its line item and left p2 with quantity 2.
C16_Witness ==
    /\ Len(calls) = 4
    /\ calls[4].op = "remove" /\ calls[4].item.id = "p1"
    /\ calls[1].op = "add" /\ calls[1].item.id = "p1"
    /\ Len(store.cart) = 1
    /\ store.cart[1].id = "p2" /\ store.cart[1].quantity = 2

\* C17: the cart holds at most one line item per product, and every line
\* item has a quantity of at least 1.
C17_CartWellFormed ==
    /\ \A i \in 1..Len(store.cart), j \in 1..Len(store.cart) :
          store.cart[i].id = store.cart[j].id => i = j
    /\ \A i \in 1..Len(store.cart) : store.cart[i].quantity >= 1

\* C17 witness: a cart of two line items, one of quantity 2, after the store
\* was toggled open, given an intent id and put in the checkout phase.
C17_Witness ==
    /\ Len(store.cart) = 2
    /\ store.cart[1].quantity = 2
    /\ store.isOpen
    /\ store.paymentIntent # NoIntent
    /\ store.onCheckout = "checkout"

\* The add (or remove) calls for a product among the calls made.
RECURSIVE CountCalls(_, _, _)
CountCalls(seq, op, id) ==
    IF seq = << >> THEN 0
    ELSE CountCalls(Tail(seq), op, id)
         + (IF Head(seq).op = op /\ Head(seq).item.id = id THEN 1 ELSE 0)

Max0(x) == IF x < 0 THEN 0 ELSE x

\* The calls for a product counted in order: up by one for an add, down by
\* one for a remove, never below 0.
RECURSIVE RunningQty(_, _)
RunningQty(seq, id) ==
    IF seq = << >> THEN 0
    ELSE LET last == seq[Len(seq)]
             before == RunningQty(SubSeq(seq, 1, Len(seq) - 1), id)
         IN  IF last.item.id # id THEN before
             ELSE IF last.op = "add" THEN before + 1
             ELSE Max0(before - 1)

\* C18 as stated: the quantity of a product is the number of its adds less
\* the number of its removes, clamped at 0, and it is 0 exactly when the
\* product has no line item.
C18_ClampedDifference ==
    \A id \in ProductIds :
        /\ Qty(store.cart, id)
              = Max0(CountCalls(calls, "add", id) - CountCalls(calls, "remove", id))
        /\ Qty(store.cart, id) = 0 <=> ~HasLine(store.cart, id)

\* C18 amended: the quantity of a product is the count of its calls taken in
\* order, an add counting +1 and a remove -1, clamped at 0 after every call;
\* and it is 0 exactly when the product has no line item.
C18_RunningClamp ==
    \A id \in ProductIds :
        /\ Qty(store.cart, id) = RunningQty(calls, id)
        /\ RunningQty(calls, id) = 0 <=> ~HasLine(store.cart, id)

\* C18 witness: remove, add, add, remove of p1: two adds and two removes,
\* and the cart holds one p1.
C18_Witness ==
    /\ Len(calls) = 4
    /\ \A i \in 1..4 : calls[i].item.id = "p1"
    /\ calls[1].op = "remove" /\ calls[2].op = "add"
    /\ calls[3].op = "add" /\ calls[4].op = "remove"
    /\ Qty(store.cart, "p1") = 1

\* C19: the amount the reconciler computes for a cart of priced items is
\* the sum of unit_amount * quantity over its items: 0 for the empty cart
\* and 2200 for the example cart; the same cart always gives the same amount.
C19_CalcAmount ==
    \A p \in RProcs :
        (Priced(req[p].items) /\ req[p].pc \in {"createOrder", "findOrder"}) =>
           /\ req[p].intent.amount = Total(req[p].items)
           /\ intents[req[p].intent.id].amount = calcOrderAmount(req[p].items)
           /\ req[p].intent.amount = calcOrderAmount(req[p].items)
           /\ req[p].items = << >> => req[p].intent.amount = 0
           /\ req[p].items = ExampleCart => req[p].intent.amount = 2200

\* C19 witness: the amount of the empty cart, 0, has been computed for an
\* intent whose amount was 2200, the example cart's.
C19_Witness ==
    /\ req["r1"].pc = "findOrder"
    /\ req["r1"].items = << >>
    /\ req["r1"].intent.amount = 0
    /\ \E o \in orders :
          /\ o.paymentIntentID = req["r1"].intent.id
          /\ o.amount = 2200
          /\ Len(o.products) = 2

\* C20: a request whose cart holds an item without a price is rejected, and
\* no intent and no Order is created or changed for it (the claim as stated;
\* the handler counts the item as 0 and goes on).
C20_NullPriceRejected ==
    [][ \A p \in RProcs :
           ( /\ ~Priced(req[p].items)
             /\ req[p].pc \notin {"idle", "done"}
             /\ req'[p] # req[p] )
           => /\ intents' = intents
              /\ orders' = orders
              /\ req'[p].pc = "done" => req'[p].resp.status >= 400 ]_vars

\* C24: every change of the cart store is written to local storage under
\* the key 'cart-store', and what a reload restores from there (cart, isOpen,
\* paymentIntent, onCheckout) is the state as it was.
C24_PersistedAcrossReload ==
    [][ /\ store' # store
           => localStorage'["cart-store"] = << Stringify(store') >>
        /\ LET restored == Rehydrate(InitStore, localStorage'["cart-store"])
           IN  /\ restored.cart = store'.cart
               /\ restored.isOpen = store'.isOpen
               /\ restored.paymentIntent = store'.paymentIntent
               /\ restored.onCheckout = store'.onCheckout ]_vars

\* C24 witness: a cart of two line items in an open panel in the checkout
\* phase with an intent id, and the same four values stored under
\* 'cart-store'.
C24_Witness ==
    /\ Len(store.cart) = 2
    /\ store.isOpen
    /\ store.paymentIntent = 1
    /\ store.onCheckout = "checkout"
    /\ Len(localStorage["cart-store"]) = 1
    /\ localStorage["cart-store"][1].state.cart = store.cart
    /\ localStorage["cart-store"][1].state.isOpen
    /\ localStorage["cart-store"][1].state.paymentIntent = 1
    /\ localStorage["cart-store"][1].state.onCheckout = "checkout"

\* C25: a store operation changes only its own field: isOpen is only ever
\* flipped, with the other fields kept; paymentIntent and onCheckout are each
\* replaced with the other fields kept; addProduct and removeProduct change
\* the cart only; and the cart changes otherwise only by being emptied.
C25_Frame ==
    [][ /\ store'.isOpen # store.isOpen
           => store' = [store EXCEPT !.isOpen = ~store.isOpen]
        /\ store'.paymentIntent # store.paymentIntent
           => store' = [store EXCEPT !.paymentIntent = store'.paymentIntent]
        /\ store'.onCheckout # store.onCheckout
           => store' = [store EXCEPT !.onCheckout = store'.onCheckout]
        /\ (store'.cart # store.cart \/ calls' # calls)
           => store' = [store EXCEPT !.cart = store'.cart]
        /\ (store'.cart # store.cart /\ calls' = calls)
           => store'.cart = << >> ]_vars

\* C25 witness: the cart has been emptied after an add, in an open panel in
\* the success phase with an intent id, which are all kept.
C25_Witness ==
    /\ store.cart = << >>
    /\ Len(calls) = 1
    /\ calls[1].op = "add"
    /\ store.isOpen
    /\ store.paymentIntent = 2
    /\ store.onCheckout = "success"

\* C22: when a request has failed on a call to the processor or to the data
\* store, every intent has its Order and the Order holds the intent's amount
\* (the claim as stated; the handler's writes are not undone).
C22_NoPartialState ==
    \A p \in RProcs :
        (req[p].pc = "done" /\ req[p].resp.status = 500) =>
           \A i \in 1..Len(intents) :
              \E o \in orders : o.paymentIntentID = i /\ o.amount = intents[i].amount

\* C23: a handler that has ended has sent a response (the claim as stated;
\* the reconciler ends without one when the processor yields no intent).
C23_AlwaysAnswered ==
    /\ \A p \in RProcs : req[p].pc = "done" => req[p].resp.status # NoResp.status
    /\ \A w \in WProcs : wh[w].pc = "done" => wh[w].resp.status # NoResp.status

\* C26: an update-path request for an intent whose Order is complete is not
\* turned away: the lookup hands the Order to the update, and the update
\* answers 200, replaces the Order's amount and line items by the cart's and
\* leaves the status complete.
C26_CompleteOrderMutable ==
    [][ \A p \in RProcs :
           /\ ( /\ req[p].pc = "findOrder" /\ req'[p] # req[p]
                /\ \E o \in OrdersOfIntent(orders, req[p].intent.id) : o.status = "complete" )
              => req'[p].pc = "updateOrder"
           /\ \A o \in orders :
                 ( /\ req[p].pc = "updateOrder" /\ req'[p] # req[p]
                   /\ o.id = req[p].existing_order
                   /\ o.status = "complete"
                   /\ Priced(req[p].items) )
                 => /\ req'[p].resp.status = 200
                    /\ \E n \in orders' :
                          /\ n.id = o.id
                          /\ n.status = "complete"
                          /\ n.amount = Total(req[p].items)
                          /\ Lines(n.products) = Lines(req[p].items) ]_vars

\* C26 witness: the charge of intent 1 was acknowledged, and an update-path
\* request with the example cart has answered 200 with the Order, which is
\* complete and holds the example cart.
C26_Witness ==
    /\ wh["w1"].pc = "done"
    /\ wh["w1"].resp = Ack
    /\ wh["w1"].event = [type |-> "charge.succeeded", payment_intent |-> 1]
    /\ req["r1"].pc = "done"
    /\ req["r1"].payment_intent_id = 1
    /\ req["r1"].items = ExampleCart
    /\ req["r1"].resp.status = 200
    /\ req["r1"].resp.order \in orders
    /\ req["r1"].resp.order.status = "complete"
    /\ req["r1"].resp.order.amount = 2200
    /\ Len(req["r1"].resp.order.products) = 2

\* C27: when two update-path requests for the same intent have both answered
\* 200, the intent's amount is the total of one of the two carts and the
\* Order's amount the total of one of the two carts, each request having
\* answered with its own cart's amounts; nothing makes the two the same cart
\* (the witness is the state where they are not).
C27_LastWriteWinsPerStore ==
    \A p \in RProcs, q \in RProcs :
        ( /\ p # q
          /\ req[p].pc = "done" /\ req[p].resp.status = 200
          /\ req[q].pc = "done" /\ req[q].resp.status = 200
          /\ req[p].payment_intent_id # NoIntent
          /\ req[p].payment_intent_id = req[q].payment_intent_id )
        => LET totals == {Total(req[p].items), Total(req[q].items)}
           IN  /\ intents[req[p].payment_intent_id].amount \in totals
               /\ \A o \in OrdersOfIntent(orders, req[p].payment_intent_id) :
                     o.amount \in totals
               /\ req[p].resp.paymentIntent.amount = Total(req[p].items)
               /\ req[p].resp.order.amount = Total(req[p].items)

\* C27 witness: two update-path requests for intent 1 with different carts
\* have both answered 200, and the intent's amount is not the Order's.
C27_Witness ==
    /\ \A p \in RProcs :
          /\ req[p].pc = "done"
          /\ req[p].resp.status = 200
          /\ req[p].payment_intent_id = 1
    /\ req["r1"].items # req["r2"].items
    /\ \E o \in orders :
          /\ o.paymentIntentID = 1
          /\ o.amount # intents[1].amount
          /\ o.amount = Total(req["r1"].items)
          /\ intents[1].amount = Total(req["r2"].items)

\* C29: when an update-path request ends with 404 because the intent has no
\* Order, the intent's amount is the total of the request's cart, and the
\* failing step leaves it so.
C29_IntentUpdatedBeforeLookup ==
    [][ \A p \in RProcs :
           ( /\ Moves(p, "findOrder", "done")
             /\ req'[p].resp.status = 404
             /\ Priced(req[p].items) )
           => /\ intents' = intents
              /\ intents'[req[p].payment_intent_id].amount = Total(req[p].items) ]_vars

\* C29 witness: a request with the example cart for an intent whose Order is
\* gone has been answered 404; the intent's amount is 2200 and no Order
\* holds that.
C29_Witness ==
    /\ req["r1"].pc = "done"
    /\ req["r1"].resp.status = 404
    /\ req["r1"].items = ExampleCart
    /\ IntentExists(req["r1"].payment_intent_id)
    /\ intents[req["r1"].payment_intent_id].amount = 2200
    /\ \A o \in orders : o.amount # 2200

\* ---- the checkout client's claims
\* The client takes the response of its request f.
Handles(f) ==
    /\ fetches[f].state = "served"
    /\ fetches'[f].state = "handled"
    /\ fetches[f].listening

\* C21: when the client takes a 404 response to a request that carried an
\* intent id, its stored intent id is cleared (the claim as stated; the
\* response handler throws and clears nothing).
C21_FreshRestart ==
    [][ \A f \in 1..Len(fetches) :
           ( /\ Handles(f)
             /\ fetches[f].payment_intent_id # NoIntent
             /\ req[fetches[f].proc].resp.status = 404 )
           => store'.paymentIntent = NoIntent ]_vars

\* C28: whenever the payment form can be submitted, the amount of the intent
\* whose clientSecret the form holds is the total of the cart (the claim as
\* stated; requests of an earlier Checkout instance are still served).
C28_ConfirmedAmountIsCartTotal ==
    (UiReady /\ checkout.mounted /\ checkout.clientSecret # NoIntent)
    => intents[checkout.clientSecret].amount = Total(store.cart)

\* C30: when the client takes a 200 response, the store's paymentIntent
\* becomes the returned intent's id and cart, isOpen and onCheckout stay as
\* they are at that moment; when it takes any other response the store stays
\* as it is.
C30_ResponseSetsIntentOnly ==
    [][ \A f \in 1..Len(fetches) :
           Handles(f) =>
              LET resp == req[fetches[f].proc].resp
              IN  IF resp.status = 200
                  THEN /\ store'.paymentIntent = resp.paymentIntent.id
                       /\ store'.cart = store.cart
                       /\ store'.isOpen = store.isOpen
                       /\ store'.onCheckout = store.onCheckout
                  ELSE /\ resp.status \in {403, 404, 500}
                       /\ store' = store ]_vars

\* C30 witness: the first request's 200 response was taken after the cart
\* had been edited and a second request sent (with the edited cart and no
\* intent id): the store has the first intent's id and the edited cart.
C30_Witness ==
    /\ Len(fetches) = 2
    /\ fetches[1].state = "handled"
    /\ fetches[1].listening
    /\ fetches[2].state = "sent"
    /\ fetches[2].payment_intent_id = NoIntent
    /\ fetches[2].items # fetches[1].items
    /\ store.cart = fetches[2].items
    /\ store.paymentIntent = 1
    /\ req["r1"].pc = "done"
    /\ req["r1"].resp.status = 200

====
